---- MODULE Spec2Model ----
(***************************************************************************)
(* A model of server.js: the startup sequence, the route handlers of the   *)
(* team-member, time-off and on-call endpoints over the three MongoDB      *)
(* collections, and the public-holiday proxy with its three outbound       *)
(* fetches.                                                                *)
(*                                                                         *)
(* A handler is a sequence of steps.  The first step is the synchronous    *)
(* part of the handler up to its first await; every later step is one      *)
(* store operation applied by the database (or refused by it: any store    *)
(* operation may fail, and a failed operation changes nothing), and the    *)
(* last step sends the response.  Steps of different requests interleave   *)
(* freely: the code takes no lock and opens no transaction.                *)
(*                                                                         *)
(* The two list routes and the static landing page read without writing    *)
(* and are left out; the year of a holiday request only selects what the   *)
(* upstream source answers, which the model takes from a set of arrays.    *)
(* The model starts from an empty database and follows the server through  *)
(* its first MaxRequests requests.                                         *)
(*                                                                         *)
(* Documents carry the fields the handlers compute with: id and name for a *)
(* team member, id and memberId for a time-off entry (type, startDate,     *)
(* endDate and notes are copied from the body to the document and never    *)
(* read), scheduleName and rotationData for the rotation document.         *)
(***************************************************************************)
EXTENDS Integers, Sequences, FiniteSets, TLC

\* ---------------------------------------------------------------- bounds

\* The two clients whose requests may be in flight at the same time.
Clients == {"c1", "c2"}

\* the model follows the server through its first MaxRequests requests
MaxRequests == 3

\* request bodies and path parameters the clients send
Absent == "<undefined>"
Names == {Absent, "", "Ann"}
MemberIds == {1, 2}
RotationKeys == {"week1", "week2"}
RotationValues == {"Ann"}
Payloads == SUBSET (RotationKeys \X RotationValues)
IdParams ==
    {<<"1">>, <<"2">>, <<"0", "1">>, <<"2", "x">>, <<"x">>,
     <<"\t", "1">>, <<"0", "x", "2">>, <<"0", "x">>,
     <<"9", "0", "0", "7", "1", "9", "9", "2", "5", "4", "7", "4", "0", "9", "9", "3">>}

\* ------------------------------------------------------- pure functions

\* a presence check that lets the empty string through
TruthyIfPresent(name) == name # Absent

\* JavaScript truthiness of the name taken from the body (line 63: !name)
Truthy(name) == name \notin {Absent, ""}

\* the digits of radix 16; those of radix 10 are the first ten
HexDigits == <<"0", "1", "2", "3", "4", "5", "6", "7", "8", "9",
               "a", "b", "c", "d", "e", "f">>
UpperHex == <<"A", "B", "C", "D", "E", "F">>

\* the characters that are digits in the given radix (10 or 16)
Digits(radix) ==
    {HexDigits[i] : i \in 1..radix}
        \cup (IF radix = 16 THEN {UpperHex[i] : i \in 1..6} ELSE {})

DigitVal(ch) ==
    IF \E i \in 1..6 : UpperHex[i] = ch
    THEN 9 + (CHOOSE i \in 1..6 : UpperHex[i] = ch)
    ELSE (CHOOSE i \in 1..16 : HexDigits[i] = ch) - 1

\* A natural number of any size is a sequence of limbs, digits of radix
\* 2^LimbBits with the least significant first and the last one not zero;
\* zero is the empty sequence.
LimbBits == 24
LimbBase == 16777216

RECURSIVE Pow2(_)
Pow2(k) == IF k = 0 THEN 1 ELSE 2 * Pow2(k - 1)

\* A loop over i = lo, ..., hi: the state after Body(state, i) was applied
\* for each i in turn.  The range is halved so that a long loop nests only
\* a few evaluations.
RECURSIVE Loop(_, _, _, _)
Loop(Body(_, _), lo, hi, state) ==
    IF lo > hi THEN state
    ELSE IF lo = hi THEN Body(state, lo)
    ELSE LET mid  == (lo + hi) \div 2
             left == Loop(Body, lo, mid, state)
         IN  IF left = left THEN Loop(Body, mid + 1, hi, left) ELSE left

\* x * radix + d, for a radix and a d of at most 16
MulAdd(x, radix, d) ==
    LET Limb(st, i) ==
            LET t == x[i] * radix + st.carry
            IN  [carry |-> t \div LimbBase, acc |-> Append(st.acc, t % LimbBase)]
        end == Loop(Limb, 1, Len(x), [carry |-> d, acc |-> <<>>])
    IN  IF end.carry = 0 THEN end.acc ELSE Append(end.acc, end.carry)

\* value of the longest prefix of s made of digits of the radix
DigitsPrefix(s, radix) ==
    LET n == CHOOSE n \in 0..Len(s) :
                 /\ \A i \in 1..n : s[i] \in Digits(radix)
                 /\ n = Len(s) \/ s[n + 1] \notin Digits(radix)
        Digit(x, i) == MulAdd(x, radix, DigitVal(s[i]))
    IN  Loop(Digit, 1, n, <<>>)

\* the number of significant bits of x, and its bit of weight 2^i
BitLen(x) ==
    IF x = <<>> THEN 0
    ELSE LimbBits * (Len(x) - 1)
         + (CHOOSE k \in 1..LimbBits : Pow2(k - 1) <= x[Len(x)] /\ x[Len(x)] < Pow2(k))

Bit(x, i) ==
    IF i \div LimbBits + 1 > Len(x) THEN 0
    ELSE (x[i \div LimbBits + 1] \div Pow2(i % LimbBits)) % 2

\* a Number is an IEEE 754 double: 53 significant bits, and Infinity from
\* 2^1024 on
MantissaBits == 53
MaxBitLen == 1024

\* bit i of x rounded to the bits from d up: the bits below d are cleared,
\* and when the value is rounded up the bits from d to the first 0 bit z
\* are inverted
RoundedBit(x, d, up, z, i) ==
    IF i < d THEN 0
    ELSE IF ~up THEN Bit(x, i)
    ELSE IF i < z THEN 0
    ELSE IF i = z THEN 1
    ELSE Bit(x, i)

\* limb j of the rounded value, summed from its bit k on
RECURSIVE RoundedLimb(_, _, _, _, _, _)
RoundedLimb(x, d, up, z, j, k) ==
    IF k = LimbBits THEN 0
    ELSE RoundedBit(x, d, up, z, LimbBits * (j - 1) + k) * Pow2(k)
         + RoundedLimb(x, d, up, z, j, k + 1)

\* the conversion of the integer x to a Number: x itself when it has at most
\* 53 significant bits, otherwise the nearest value with 53 significant
\* bits, a tie going to the one whose last bit is 0.  The result may have
\* one bit more than x.
ToNumber(x) ==
    LET len == BitLen(x)
    IN  IF len <= MantissaBits THEN x
        ELSE LET d      == len - MantissaBits
                 sticky == \E i \in 0..(d - 2) : Bit(x, i) = 1
                 up     == Bit(x, d - 1) = 1 /\ (sticky \/ Bit(x, d) = 1)
                 z      == CHOOSE i \in d..len :
                               Bit(x, i) = 0 /\ \A j \in d..(i - 1) : Bit(x, j) = 1
                 newLen == IF up /\ z = len THEN len + 1 ELSE len
             IN  [j \in 1..((newLen + LimbBits - 1) \div LimbBits) |->
                     RoundedLimb(x, d, up, z, j, 0)]

\* x divided by ten: the quotient and the remainder
DivTen(x) ==
    LET Limb(st, k) ==
            LET t == st.r * LimbBase + x[Len(x) + 1 - k]
            IN  [q |-> <<t \div 10>> \o st.q, r |-> t % 10]
        end == Loop(Limb, 1, Len(x), [q |-> <<>>, r |-> 0])
    IN  [q |-> IF end.q # <<>> /\ end.q[Len(end.q)] = 0
               THEN SubSeq(end.q, 1, Len(end.q) - 1) ELSE end.q,
         r |-> end.r]

\* the decimal digits of x: a digit is taken off until nothing is left,
\* which takes fewer steps than x has bits
Decimal(x) ==
    LET Digit(st, k) ==
            IF st.x = <<>> THEN st
            ELSE LET dm == DivTen(st.x)
                 IN  [x |-> dm.q, digits |-> <<HexDigits[dm.r + 1]>> \o st.digits]
    IN  Loop(Digit, 1, BitLen(x), [x |-> x, digits |-> <<>>]).digits

\* StrWhiteSpaceChar: white space and line terminators.  A character the
\* string syntax cannot write is named between angle brackets: the vertical
\* tab, the no-break space, the byte order mark, any other space separator,
\* the line separator and the paragraph separator.
WhiteSpace ==
    {" ", "\t", "\n", "\r", "\f", "<VT>", "<NBSP>", "<ZWNBSP>", "<USP>", "<LS>", "<PS>"}

RECURSIVE SkipSpaces(_)
SkipSpaces(s) ==
    IF s # <<>> /\ Head(s) \in WhiteSpace THEN SkipSpaces(Tail(s)) ELSE s

\* parseInt(string) with no radix: leading white space is skipped, then an
\* optional sign, then a 0x or 0X prefix selects radix 16 (radix 10
\* otherwise), then the longest prefix of digits of that radix is the
\* integer, which is converted to a Number; NaN when that prefix is empty.
\* The result is val when its magnitude is below 2^31; a larger one is
\* written in big, as its sign and its decimal digits or Infinity.  A
\* negative zero is written 0: a query makes no difference between them.
ParseInt(str) ==
    LET s      == SkipSpaces(str)
        neg    == s # <<>> /\ Head(s) = "-"
        rest   == IF s # <<>> /\ Head(s) \in {"-", "+"} THEN Tail(s) ELSE s
        hex    == Len(rest) >= 2 /\ rest[1] = "0" /\ rest[2] \in {"x", "X"}
        radix  == IF hex THEN 16 ELSE 10
        digits == IF hex THEN SubSeq(rest, 3, Len(rest)) ELSE rest
        number == ToNumber(DigitsPrefix(digits, radix))
        small  == Len(number) <= 1 \/ (Len(number) = 2 /\ number[2] < Pow2(31 - LimbBits))
        int    == IF number = <<>> THEN 0
                  ELSE number[1] + (IF Len(number) = 2 THEN number[2] * LimbBase ELSE 0)
    IN  IF digits = <<>> \/ Head(digits) \notin Digits(radix)
        THEN [nan |-> TRUE, val |-> 0, big |-> <<>>]
        ELSE IF small
        THEN [nan |-> FALSE, val |-> IF neg THEN 0 - int ELSE int, big |-> <<>>]
        ELSE [nan |-> FALSE, val |-> 0,
              big |-> (IF neg THEN <<"-">> ELSE <<>>)
                      \o (IF BitLen(number) > MaxBitLen THEN <<"Infinity">>
                          ELSE Decimal(number))]

\* parseInt of each path parameter the clients send
Parsed == [param \in IdParams |-> ParseInt(param)]

\* a query { field: n } with n the result of parseInt, on a stored value
\* below 2^31: NaN matches no number, nor does a larger magnitude
Matches(value, n) == ~n.nan /\ n.big = <<>> /\ value = n.val

\* ------------------------------------------------------ store operations

\* collection.find().sort({ id: -1 }).limit(1).toArray()
FindLast(coll) ==
    IF coll = <<>> THEN <<>>
    ELSE LET i == CHOOSE i \in 1..Len(coll) :
                     \A j \in 1..Len(coll) : coll[j].id <= coll[i].id
         IN  <<coll[i]>>

\* a mistaken id rule: one more than the number of documents
NextIdByCount(coll) == Len(coll) + 1

\* lines 66 and 104: last.length > 0 ? (last[0].id || 0) + 1 : 1
NextId(coll) ==
    LET last == FindLast(coll)
    IN  IF Len(last) > 0
        THEN (IF last[1].id = 0 THEN 0 ELSE last[1].id) + 1
        ELSE 1

\* an insert under a unique index on id: a duplicate is not stored
InsertOneUnique(coll, doc) ==
    IF \E i \in 1..Len(coll) : coll[i].id = doc.id THEN coll ELSE Append(coll, doc)

\* collection.insertOne(doc): no index on id, the document is appended
InsertOne(coll, doc) == Append(coll, doc)

\* collection.deleteOne({ id: n }): removes the first matching document
DeleteOne(coll, n) ==
    IF \E i \in 1..Len(coll) : Matches(coll[i].id, n)
    THEN LET k == CHOOSE k \in 1..Len(coll) :
                     /\ Matches(coll[k].id, n)
                     /\ \A j \in 1..(k - 1) : ~Matches(coll[j].id, n)
         IN  SubSeq(coll, 1, k - 1) \o SubSeq(coll, k + 1, Len(coll))
    ELSE coll

\* collection.deleteMany({ memberId: n }): removes every matching document
DeleteMany(coll, n) == SelectSeq(coll, LAMBDA d : ~Matches(d.memberId, n))

\* collection.findOne({ scheduleName: "main" }): the first match, or none
FindOne(coll) == SelectSeq(coll, LAMBDA d : d.scheduleName = "main")

\* an update that merges the new payload into the stored one
UpdateOneMerge(coll, data) ==
    IF FindOne(coll) = <<>>
    THEN Append(coll, [scheduleName |-> "main", rotationData |-> data])
    ELSE LET k == CHOOSE k \in 1..Len(coll) : coll[k].scheduleName = "main"
         IN  [coll EXCEPT ![k].rotationData = @ \cup data]

\* updateOne({scheduleName:"main"}, {$set:{rotationData}}, {upsert:true})
UpdateOne(coll, data) ==
    IF FindOne(coll) = <<>>
    THEN Append(coll, [scheduleName |-> "main", rotationData |-> data])
    ELSE LET k == CHOOSE k \in 1..Len(coll) :
                     /\ coll[k].scheduleName = "main"
                     /\ \A j \in 1..(k - 1) : coll[j].scheduleName # "main"
         IN  [coll EXCEPT ![k].rotationData = data]

\* ----------------------------------------------------------------- state

VARIABLES
    phase,      \* "boot", "connecting", "connected", "listening" or "exited"
    mongoUri,   \* whether process.env.MONGO_URI holds a value (line 10)
    handles,    \* whether the three collection handles are set (lines 36-38)
    exitCode,   \* the code given to process.exit, 0 while the process runs
    members,    \* the teamMembers collection, in insertion order
    timeOff,    \* the timeOffEntries collection, in insertion order
    onCall,     \* the onCallRotation collection
    req,        \* per client: the request it has in flight, or its last response
    issued,     \* history: the ids the create handlers have stored, per collection
    lastSave,   \* history: the save-rotation request that was answered 200 last
    lastWrite,  \* history: the payload of the updateOne that was applied last
    hol,        \* per client: the holiday request it has in flight
    served      \* the number of requests received so far

vars == <<phase, mongoUri, handles, exitCode, members, timeOff, onCall, req,
          issued, lastSave, lastWrite, hol, served>>

startupVars == <<phase, mongoUri, handles, exitCode>>
storeVars == <<members, timeOff, onCall>>

\* what the three collections hold
Store == [m |-> members, t |-> timeOff, o |-> onCall]
NoStore == [m |-> <<>>, t |-> <<>>, o |-> <<>>]

NaN == [nan |-> TRUE, val |-> 0, big |-> <<>>]

\* A request: its route (kind), its position (pc), what it took from the
\* path and the body (n, name, memberId, data), the local nextId, and the
\* response (status, and id or body).  History kept with it: inter, whether
\* another request took a step since this one began; snap, the store as it
\* was when this one began (kept while inter is false); again, whether a
\* delete-member request repeats the delete that was answered just before.
\* For the two rotation routes: over, whether a save-rotation request was in
\* flight at some time while this one ran (for a get-rotation: until its
\* findOne); seen, the value of lastSave when a get-rotation began; wrote,
\* the value of lastWrite when its findOne ran.
NoSave == [some |-> FALSE, data |-> {}, over |-> FALSE]
NoWrite == [some |-> FALSE, data |-> {}]

IdleReq ==
    [kind |-> "none", pc |-> "idle", n |-> NaN, name |-> Absent, memberId |-> 0,
     data |-> {}, nextId |-> 0, status |-> 0, id |-> 0, body |-> {},
     inter |-> FALSE, snap |-> NoStore, again |-> FALSE,
     over |-> FALSE, seen |-> NoSave, wrote |-> NoWrite]

\* a save-rotation request is between its first step and its response
SaveInFlight ==
    \E d \in Clients : req[d].kind = "postOnCall" /\ req[d].pc \notin {"idle", "done"}

NewReq(kind) ==
    [IdleReq EXCEPT !.kind = kind, !.snap = Store,
                    !.over = kind \in {"getOnCall", "postOnCall"} /\ SaveInFlight,
                    !.seen = IF kind = "getOnCall" THEN lastSave ELSE NoSave]

\* request q, in flight, sees a save-rotation request begin (its record is r)
Overlaps(q, r) ==
    /\ r.kind = "postOnCall" /\ r.pc = "updateOne"
    /\ \/ q.kind = "postOnCall"
       \/ q.kind = "getOnCall" /\ q.pc = "findOne"

\* what a step of another client, whose request becomes r, makes of a
\* request: one in flight has been interleaved, and a response is kept only
\* until the next step is taken
Mark(q, r) ==
    IF q.pc \in {"idle", "done"} THEN IdleReq
    ELSE [q EXCEPT !.inter = TRUE, !.snap = NoStore, !.over = @ \/ Overlaps(q, r)]

\* client c's request becomes r
Step(c, r) == req' = [d \in Clients |-> IF d = c THEN r ELSE Mark(req[d], r)]

Free(c) == req[c].pc \in {"idle", "done"}

\* the catch blocks: res.status(500).json({ message: err.message })
Fail(r) == [r EXCEPT !.pc = "respond", !.status = 500]

\* ---------------------------------------------------------------- startup

\* lines 10-16 and 31-33: the check of MONGO_URI, then connectDB() begins
Boot ==
    /\ phase = "boot"
    /\ IF mongoUri
       THEN phase' = "connecting" /\ exitCode' = exitCode
       ELSE phase' = "exited" /\ exitCode' = 1
    /\ UNCHANGED <<mongoUri, handles, storeVars, req, issued, lastSave, lastWrite, hol, served>>

\* lines 34-39: client.connect() resolved, the handles are set
ConnectOk ==
    /\ phase = "connecting"
    /\ phase' = "connected"
    /\ handles' = TRUE
    /\ UNCHANGED <<mongoUri, exitCode, storeVars, req, issued, lastSave, lastWrite, hol, served>>

\* a catch block that logs the failure and lets connectDB() resolve
ConnectFailResolves ==
    /\ phase = "connecting"
    /\ phase' = "connected"
    /\ UNCHANGED <<mongoUri, handles, exitCode, storeVars, req, issued, lastSave, lastWrite, hol, served>>

\* lines 40-43: client.connect() rejected, process.exit(1)
ConnectFail ==
    /\ phase = "connecting"
    /\ phase' = "exited"
    /\ exitCode' = 1
    /\ UNCHANGED <<mongoUri, handles, storeVars, req, issued, lastSave, lastWrite, hol, served>>

\* lines 183-187: connectDB().then(() => app.listen(port))
Listen ==
    /\ phase = "connected"
    /\ phase' = "listening"
    /\ UNCHANGED <<mongoUri, handles, exitCode, storeVars, req, issued, lastSave, lastWrite, hol, served>>

\* ------------------------------------------------------ member handlers

\* POST /api/members, lines 60-65: the name check, then find() is issued
PostMember(c, name) ==
    /\ phase = "listening" /\ served < MaxRequests /\ Free(c)
    /\ IF Truthy(name)
       THEN Step(c, [NewReq("postMember") EXCEPT !.name = name, !.pc = "find"])
       ELSE Step(c, [NewReq("postMember") EXCEPT !.name = name, !.pc = "done",
                                                  !.status = 400])
    /\ UNCHANGED <<startupVars, storeVars, issued, lastSave, lastWrite, hol>>
    /\ served' = served + 1

\* lines 65-66: the find() is answered and nextId computed
MemberFind(c, ok) ==
    /\ req[c].kind = "postMember" /\ req[c].pc = "find"
    /\ IF ok
       THEN Step(c, [req[c] EXCEPT !.pc = "insert", !.nextId = NextId(members)])
       ELSE Step(c, Fail(req[c]))
    /\ UNCHANGED <<startupVars, storeVars, issued, lastSave, lastWrite, hol, served>>

\* an insert that reports an error after the document was stored
MemberInsertFailStores(c, ok) ==
    /\ req[c].kind = "postMember" /\ req[c].pc = "insert"
    /\ members' = InsertOne(members, [id |-> req[c].nextId, name |-> req[c].name])
    /\ issued' = [issued EXCEPT !.m = @ \cup {req[c].nextId}]
    /\ IF ok
       THEN Step(c, [req[c] EXCEPT !.pc = "respond", !.status = 201,
                                   !.id = req[c].nextId])
       ELSE Step(c, Fail(req[c]))
    /\ UNCHANGED <<startupVars, timeOff, onCall, lastSave, lastWrite, hol, served>>

\* lines 68-70: insertOne(newMember), then 201 with the new member
MemberInsert(c, ok) ==
    /\ req[c].kind = "postMember" /\ req[c].pc = "insert"
    /\ IF ok
       THEN /\ members' = InsertOne(members, [id |-> req[c].nextId, name |-> req[c].name])
            /\ issued' = [issued EXCEPT !.m = @ \cup {req[c].nextId}]
            /\ Step(c, [req[c] EXCEPT !.pc = "respond", !.status = 201,
                                      !.id = req[c].nextId])
       ELSE /\ UNCHANGED <<members, issued>>
            /\ Step(c, Fail(req[c]))
    /\ UNCHANGED <<startupVars, timeOff, onCall, lastSave, lastWrite, hol, served>>

\* whether the delete-member request that was answered just before this one
\* begins asked for the same id, got 200, and ran with nothing interleaved
Repeats(c, n) ==
    \E d \in Clients \ {c} :
        /\ req[d].kind = "deleteMember" /\ req[d].pc = "done"
        /\ req[d].status = 200 /\ ~req[d].inter /\ req[d].n = n

\* DELETE /api/members/:id, lines 77-80: parseInt, then deleteOne is issued
DeleteMember(c, param) ==
    /\ phase = "listening" /\ served < MaxRequests /\ Free(c)
    /\ Step(c, [NewReq("deleteMember") EXCEPT !.n = Parsed[param], !.pc = "deleteOne",
                                             !.again = Repeats(c, Parsed[param])])
    /\ UNCHANGED <<startupVars, storeVars, issued, lastSave, lastWrite, hol>>
    /\ served' = served + 1

\* line 80: teamMembersCollection.deleteOne({ id: memberId })
MemberDeleteOne(c, ok) ==
    /\ req[c].kind = "deleteMember" /\ req[c].pc = "deleteOne"
    /\ IF ok
       THEN /\ members' = DeleteOne(members, req[c].n)
            /\ Step(c, [req[c] EXCEPT !.pc = "deleteMany"])
       ELSE /\ UNCHANGED members
            /\ Step(c, Fail(req[c]))
    /\ UNCHANGED <<startupVars, timeOff, onCall, issued, lastSave, lastWrite, hol, served>>

\* lines 81-82: timeOffCollection.deleteMany({ memberId }), then 200
TimeOffDeleteMany(c, ok) ==
    /\ req[c].kind = "deleteMember" /\ req[c].pc = "deleteMany"
    /\ IF ok
       THEN /\ timeOff' = DeleteMany(timeOff, req[c].n)
            /\ Step(c, [req[c] EXCEPT !.pc = "respond", !.status = 200])
       ELSE /\ UNCHANGED timeOff
            /\ Step(c, Fail(req[c]))
    /\ UNCHANGED <<startupVars, members, onCall, issued, lastSave, lastWrite, hol, served>>

\* ---------------------------------------------------- time-off handlers

\* POST /api/timeoff, lines 99-103: the body is read, find() is issued
PostTimeOff(c, memberId) ==
    /\ phase = "listening" /\ served < MaxRequests /\ Free(c)
    /\ Step(c, [NewReq("postTimeOff") EXCEPT !.memberId = memberId, !.pc = "find"])
    /\ UNCHANGED <<startupVars, storeVars, issued, lastSave, lastWrite, hol>>
    /\ served' = served + 1

\* lines 103-104: the find() is answered and nextId computed
TimeOffFind(c, ok) ==
    /\ req[c].kind = "postTimeOff" /\ req[c].pc = "find"
    /\ IF ok
       THEN Step(c, [req[c] EXCEPT !.pc = "insert", !.nextId = NextId(timeOff)])
       ELSE Step(c, Fail(req[c]))
    /\ UNCHANGED <<startupVars, storeVars, issued, lastSave, lastWrite, hol, served>>

\* lines 106-108: insertOne(newEntry), then 201 with the new entry
TimeOffInsert(c, ok) ==
    /\ req[c].kind = "postTimeOff" /\ req[c].pc = "insert"
    /\ IF ok
       THEN /\ timeOff' = InsertOne(timeOff, [id |-> req[c].nextId,
                                              memberId |-> req[c].memberId])
            /\ issued' = [issued EXCEPT !.t = @ \cup {req[c].nextId}]
            /\ Step(c, [req[c] EXCEPT !.pc = "respond", !.status = 201,
                                      !.id = req[c].nextId])
       ELSE /\ UNCHANGED <<timeOff, issued>>
            /\ Step(c, Fail(req[c]))
    /\ UNCHANGED <<startupVars, members, onCall, lastSave, lastWrite, hol, served>>

\* DELETE /api/timeoff/:id, lines 115-117: parseInt, deleteOne is issued
DeleteTimeOff(c, param) ==
    /\ phase = "listening" /\ served < MaxRequests /\ Free(c)
    /\ Step(c, [NewReq("deleteTimeOff") EXCEPT !.n = Parsed[param], !.pc = "deleteOne"])
    /\ UNCHANGED <<startupVars, storeVars, issued, lastSave, lastWrite, hol>>
    /\ served' = served + 1

\* lines 117-118: timeOffCollection.deleteOne({ id }), then 200
TimeOffDeleteOne(c, ok) ==
    /\ req[c].kind = "deleteTimeOff" /\ req[c].pc = "deleteOne"
    /\ IF ok
       THEN /\ timeOff' = DeleteOne(timeOff, req[c].n)
            /\ Step(c, [req[c] EXCEPT !.pc = "respond", !.status = 200])
       ELSE /\ UNCHANGED timeOff
            /\ Step(c, Fail(req[c]))
    /\ UNCHANGED <<startupVars, members, onCall, issued, lastSave, lastWrite, hol, served>>

\* ----------------------------------------------------- on-call handlers

\* GET /api/oncall, lines 128-130: findOne is issued
GetOnCall(c) ==
    /\ phase = "listening" /\ served < MaxRequests /\ Free(c)
    /\ Step(c, [NewReq("getOnCall") EXCEPT !.pc = "findOne"])
    /\ UNCHANGED <<startupVars, storeVars, issued, lastSave, lastWrite, hol>>
    /\ served' = served + 1

\* lines 130-135: rotation ? (rotation.rotationData || {}) : {}
\* (a stored payload is an object, and every object is truthy)
OnCallFindOne(c, ok) ==
    /\ req[c].kind = "getOnCall" /\ req[c].pc = "findOne"
    /\ IF ok
       THEN LET rotation == FindOne(onCall)
            IN  Step(c, [req[c] EXCEPT !.pc = "respond", !.status = 200,
                           !.wrote = lastWrite,
                           !.body = IF rotation # <<>> THEN rotation[1].rotationData
                                                       ELSE {}])
       ELSE Step(c, Fail(req[c]))
    /\ UNCHANGED <<startupVars, storeVars, issued, lastSave, lastWrite, hol, served>>

\* POST /api/oncall, lines 142-145: the body is the payload, updateOne is issued
PostOnCall(c, data) ==
    /\ phase = "listening" /\ served < MaxRequests /\ Free(c)
    /\ Step(c, [NewReq("postOnCall") EXCEPT !.data = data, !.pc = "updateOne"])
    /\ UNCHANGED <<startupVars, storeVars, issued, lastSave, lastWrite, hol>>
    /\ served' = served + 1

\* lines 145-150: the upsert, then 200
OnCallUpdateOne(c, ok) ==
    /\ req[c].kind = "postOnCall" /\ req[c].pc = "updateOne"
    /\ IF ok
       THEN /\ onCall' = UpdateOne(onCall, req[c].data)
            /\ lastWrite' = [some |-> TRUE, data |-> req[c].data]
            /\ Step(c, [req[c] EXCEPT !.pc = "respond", !.status = 200])
       ELSE /\ UNCHANGED <<onCall, lastWrite>>
            /\ Step(c, Fail(req[c]))
    /\ UNCHANGED <<startupVars, members, timeOff, issued, lastSave, hol, served>>

\* the handler resumes after its last store operation and sends the response
Respond(c) ==
    /\ req[c].pc = "respond"
    /\ Step(c, [req[c] EXCEPT !.pc = "done", !.nextId = 0])
    /\ lastSave' = IF req[c].kind = "postOnCall" /\ req[c].status = 200
                   THEN [some |-> TRUE, data |-> req[c].data, over |-> req[c].over]
                   ELSE lastSave
    /\ UNCHANGED <<startupVars, storeVars, issued, lastWrite, hol, served>>

\* ------------------------------------------------------- holiday lookup

\* line 159: const countries = ['SK', 'NO', 'DK']
Countries == <<"SK", "NO", "DK">>
CountryIdx == 1..Len(Countries)

\* an upstream answer for a country holds at most MaxHolidays items
MaxHolidays == 1

\* the arrays the upstream source may answer with for country k
RECURSIVE HolidayList(_, _)
HolidayList(k, n) == IF n = 0 THEN <<>> ELSE Append(HolidayList(k, n - 1), <<Countries[k], n>>)
Upstream(k) == {HolidayList(k, n) : n \in 0..MaxHolidays}

\* how an outbound call may end: a 2xx answer with an array, an answer
\* whose ok flag is false (line 163), or a transport error
Outcomes == {"ok", "notOk", "error"}

\* the promise built in lines 161-167 is fulfilled only by an ok answer
Settled(outcome) == IF outcome = "ok" THEN "fulfilled" ELSE "rejected"

\* a join that waits for every promise before it settles
PromiseAllSettled(fetch) ==
    IF \E k \in CountryIdx : fetch[k] = "pending" THEN "pending"
    ELSE IF \E k \in CountryIdx : fetch[k] = "rejected" THEN "rejected"
    ELSE "fulfilled"

\* line 171, Promise.all: rejected as soon as one promise is rejected,
\* fulfilled when all are fulfilled
PromiseAll(fetch) ==
    IF \E k \in CountryIdx : fetch[k] = "rejected" THEN "rejected"
    ELSE IF \A k \in CountryIdx : fetch[k] = "fulfilled" THEN "fulfilled"
    ELSE "pending"

\* a flattening that puts the last array first
RECURSIVE FlatReversed(_)
FlatReversed(arrays) ==
    IF arrays = <<>> THEN <<>> ELSE FlatReversed(Tail(arrays)) \o Head(arrays)

\* line 173, allHolidaysArrays.flat(): the arrays joined in their order
RECURSIVE Flat(_)
Flat(arrays) ==
    IF arrays = <<>> THEN <<>> ELSE Head(arrays) \o Flat(Tail(arrays))

\* A holiday request: its position, the state and the value of the three
\* promises, and the response.  History kept with it: sent, the number of
\* responses sent; open, the calls still pending when the response went out.
IdleHol ==
    [pc |-> "idle", fetch |-> [k \in CountryIdx |-> "pending"],
     data |-> [k \in CountryIdx |-> <<>>], status |-> 0, body |-> <<>>,
     sent |-> 0, open |-> {}]

\* GET /api/holidays/:year, lines 157-171: the three calls are issued
GetHolidays(c) ==
    /\ phase = "listening" /\ served < MaxRequests
    /\ hol[c].pc \in {"idle", "done"}
    /\ hol' = [hol EXCEPT ![c] = [IdleHol EXCEPT !.pc = "waiting"]]
    /\ UNCHANGED <<startupVars, storeVars, req, issued, lastSave, lastWrite>>
    /\ served' = served + 1

\* lines 161-178: one outbound call ends; when that settles the join, the
\* handler resumes in the same turn and sends the response
FetchSettles(c, k, outcome, list) ==
    /\ hol[c].pc \in {"waiting", "done"}
    /\ hol[c].fetch[k] = "pending"
    /\ LET h     == hol[c]
           fetch == [h.fetch EXCEPT ![k] = Settled(outcome)]
           data  == [h.data EXCEPT ![k] = IF outcome = "ok" THEN list ELSE <<>>]
           open  == {j \in CountryIdx : fetch[j] = "pending"}
           h1    == [h EXCEPT !.fetch = fetch, !.data = data]
       IN  hol' = [hol EXCEPT ![c] =
               IF h.pc = "waiting" /\ PromiseAll(fetch) = "fulfilled"
               THEN [h1 EXCEPT !.pc = "done", !.status = 200, !.body = Flat(data),
                               !.sent = @ + 1, !.open = open]
               ELSE IF h.pc = "waiting" /\ PromiseAll(fetch) = "rejected"
               THEN [h1 EXCEPT !.pc = "done", !.status = 500, !.body = <<>>,
                               !.sent = @ + 1, !.open = open]
               ELSE h1]
    /\ UNCHANGED <<startupVars, storeVars, req, issued, lastSave, lastWrite, served>>

\* ------------------------------------------------------- specifications

Init ==
    /\ phase = "boot"
    /\ mongoUri \in BOOLEAN
    /\ handles = FALSE
    /\ exitCode = 0
    /\ members = <<>>
    /\ timeOff = <<>>
    /\ onCall = <<>>
    /\ req = [c \in Clients |-> IdleReq]
    /\ issued = [m |-> {}, t |-> {}]
    /\ lastSave = NoSave
    /\ lastWrite = NoWrite
    /\ hol = [c \in Clients |-> IdleHol]
    /\ served = 0

Startup == Boot \/ ConnectOk \/ ConnectFail \/ Listen

\* the server with the handlers that use the store
Next ==
    \/ Startup
    \/ \E c \in Clients :
        \/ \E name \in Names : PostMember(c, name)
        \/ \E param \in IdParams : DeleteMember(c, param)
        \/ \E memberId \in MemberIds : PostTimeOff(c, memberId)
        \/ \E param \in IdParams : DeleteTimeOff(c, param)
        \/ GetOnCall(c)
        \/ \E data \in Payloads : PostOnCall(c, data)
        \/ \E ok \in BOOLEAN :
            \/ MemberFind(c, ok)
            \/ MemberInsert(c, ok)
            \/ MemberDeleteOne(c, ok)
            \/ TimeOffDeleteMany(c, ok)
            \/ TimeOffFind(c, ok)
            \/ TimeOffInsert(c, ok)
            \/ TimeOffDeleteOne(c, ok)
            \/ OnCallFindOne(c, ok)
            \/ OnCallUpdateOne(c, ok)
        \/ Respond(c)

Spec == Init /\ [][Next]_vars

\* the server with the holiday handler, which uses no store
NextHolidays ==
    \/ Startup
    \/ \E c \in Clients :
        \/ GetHolidays(c)
        \/ \E k \in CountryIdx, outcome \in Outcomes :
               \E list \in Upstream(k) : FetchSettles(c, k, outcome, list)

SpecHolidays == Init /\ [][NextHolidays]_vars

\* --------------------------------------------------------------- claims

\* the largest id among the documents of a non-empty collection
LargestId(coll) ==
    CHOOSE x \in {coll[i].id : i \in DOMAIN coll} :
        \A y \in {coll[i].id : i \in DOMAIN coll} : y <= x

\* the response of client c's request has just been sent
Answered(c, kind, status) ==
    req[c].pc = "done" /\ req[c].kind = kind /\ req[c].status = status

\* the same, for a request that ran with no step of another request between
\* its first step and its response
AnsweredAlone(c, kind, status) == Answered(c, kind, status) /\ ~req[c].inter

\* no request other than client c's is in flight
OnlyRequest(c) == \A d \in Clients \ {c} : req[d].pc \in {"idle", "done"}

\* C1: a create-member or create-time-off request that runs with no other
\* request interleaved stores and returns id 1 when the collection was empty
\* and otherwise the largest id of the collection plus one, and the
\* collection afterwards is the earlier one with that document appended.
C1_SerializedCreateId ==
    \A c \in Clients :
        /\ AnsweredAlone(c, "postMember", 201) =>
              /\ req[c].id = IF req[c].snap.m = <<>> THEN 1
                             ELSE LargestId(req[c].snap.m) + 1
              /\ members = Append(req[c].snap.m, [id |-> req[c].id, name |-> req[c].name])
        /\ AnsweredAlone(c, "postTimeOff", 201) =>
              /\ req[c].id = IF req[c].snap.t = <<>> THEN 1
                             ELSE LargestId(req[c].snap.t) + 1
              /\ timeOff = Append(req[c].snap.t,
                                  [id |-> req[c].id, memberId |-> req[c].memberId])

\* a serialized create on a collection whose largest id is not its size
C1_Witness ==
    \E c \in Clients :
        /\ AnsweredAlone(c, "postMember", 201)
        /\ req[c].snap.m # <<>>
        /\ req[c].id = LargestId(req[c].snap.m) + 1
        /\ req[c].id # Len(req[c].snap.m) + 1

\* C2: after a delete-member request for M that ran with no other request
\* interleaved or in flight was answered 200, the store holds no member with
\* id M and no time-off entry with memberId M; the same delete issued again
\* and answered 200 leaves the store unchanged.
C2_DeleteMemberRemovesAll ==
    \A c \in Clients :
        (AnsweredAlone(c, "deleteMember", 200) /\ OnlyRequest(c)) =>
            /\ \A i \in DOMAIN members : ~Matches(members[i].id, req[c].n)
            /\ \A i \in DOMAIN timeOff : ~Matches(timeOff[i].memberId, req[c].n)
            /\ req[c].again => Store = req[c].snap

\* C3, as stated: a get-rotation answered 200 returns the empty object when
\* no save-rotation had been answered 200 by the time it began, and
\* otherwise exactly the payload of the save-rotation answered 200 last
\* before it began.
C3_RotationReadsLastSave ==
    \A c \in Clients :
        Answered(c, "getOnCall", 200) =>
            req[c].body = IF req[c].seen.some THEN req[c].seen.data ELSE {}

\* C3, amended: a get-rotation answered 200 returns the empty object when no
\* updateOne had been applied by the time of its findOne, and otherwise
\* exactly the payload of the updateOne applied last, nothing merged in.
\* When no save-rotation was in flight between its first step and its
\* findOne, that is the empty object if no save had been answered 200, and
\* the payload of the save answered 200 last if that save overlapped no
\* other save-rotation.  Requests of the other routes may interleave freely.
C3_RotationReadsLastWrite ==
    \A c \in Clients :
        Answered(c, "getOnCall", 200) =>
            /\ req[c].body = IF req[c].wrote.some THEN req[c].wrote.data ELSE {}
            /\ ~req[c].over =>
                  /\ ~req[c].seen.some => req[c].body = {}
                  /\ (req[c].seen.some /\ ~req[c].seen.over) =>
                        req[c].body = req[c].seen.data

\* a get-rotation, interleaved with a request of another route but with no
\* save-rotation, that returned the non-empty payload of the last save
C3_Witness ==
    \E c \in Clients :
        /\ Answered(c, "getOnCall", 200)
        /\ req[c].inter /\ ~req[c].over
        /\ req[c].seen.some /\ ~req[c].seen.over
        /\ req[c].body = req[c].seen.data
        /\ req[c].body # {}

\* C4: a create-member request whose name is empty or absent is answered 400
\* in its first step, before any store operation, with the three collections
\* as they were; no request is answered 400 otherwise, and no stored member
\* has an empty or absent name.
C4_MissingNameRejected ==
    /\ \A c \in Clients :
          /\ (req[c].kind = "postMember" /\ req[c].name \in {Absent, ""}) =>
                /\ Answered(c, "postMember", 400)
                /\ ~req[c].inter
                /\ Store = req[c].snap
          /\ req[c].status = 400 =>
                req[c].kind = "postMember" /\ req[c].name \in {Absent, ""}
    /\ \A i \in DOMAIN members : members[i].name \notin {Absent, ""}

\* an empty name was answered 400 while the collection holds a member
C4_Witness ==
    \E c \in Clients :
        /\ Answered(c, "postMember", 400)
        /\ req[c].name = ""
        /\ members # <<>>
        /\ members = req[c].snap.m

\* C6: the id stored by a create request that ran with no other request
\* interleaved or in flight is greater than every id stored earlier in that
\* collection.
C6_IdsMonotonic ==
    [][\A c \in Clients :
          (/\ req[c].pc = "insert" /\ req'[c].status = 201
           /\ ~req[c].inter /\ OnlyRequest(c)) =>
              \A k \in (IF req[c].kind = "postMember" THEN issued.m ELSE issued.t) :
                  req[c].nextId > k]_vars

\* C7: an insert that the store does not fail is never refused for its id:
\* the document is appended with the id the request computed when it read
\* the collection, also when a document with that id is already stored, and
\* the request is answered 201 with that id.
C7_DuplicateIdAccepted ==
    [][\A c \in Clients :
          (req[c].pc = "insert" /\ req'[c].status = 201) =>
              /\ req'[c].id = req[c].nextId
              /\ req[c].kind = "postMember" =>
                    members' = Append(members, [id |-> req[c].nextId,
                                                name |-> req[c].name])
              /\ req[c].kind = "postTimeOff" =>
                    timeOff' = Append(timeOff, [id |-> req[c].nextId,
                                                memberId |-> req[c].memberId])]_vars

\* two concurrent creates on the empty collection both stored id 1
C7_Witness ==
    \E c \in Clients :
        /\ Answered(c, "postMember", 201)
        /\ req[c].id = 1
        /\ req[c].inter
        /\ Len(members) = 2
        /\ members[1].id = 1 /\ members[2].id = 1

\* C8: the server listens only after the connection string was found, the
\* connection succeeded and the handles were set; a process that exits does
\* so with code 1, has served nothing and never listens afterwards; a
\* request is in flight only while the server listens with its handles set.
C8_StartupOrder ==
    /\ [](/\ phase \in {"connected", "listening"} => (handles /\ mongoUri)
          /\ phase = "connecting" => mongoUri
          /\ ~mongoUri => phase \in {"boot", "exited"}
          /\ phase = "exited" <=> exitCode = 1
          /\ exitCode \in {0, 1}
          /\ phase # "listening" => served = 0
          /\ \A c \in Clients :
                req[c].pc # "idle" => (phase = "listening" /\ handles))
    /\ [][/\ phase = "exited" => phase' = "exited"
          /\ phase' = "listening" => phase \in {"connected", "listening"}
          /\ handles => handles']_vars

\* a store operation is pending while the server listens
C8_Witness ==
    /\ phase = "listening" /\ handles
    /\ \E c \in Clients : req[c].pc = "insert"

\* C10: a request answered 500 that ran with no other request interleaved
\* leaves the three collections as they were when it began.
C10_ErrorLeavesStore ==
    \A c \in Clients :
        (req[c].pc = "done" /\ req[c].status = 500 /\ ~req[c].inter) =>
            Store = req[c].snap

\* C10 as amended: the same for create member, create time-off, delete
\* time-off, save rotation and get rotation; a delete-member request
\* answered 500 leaves the time-off and rotation collections as they were,
\* and the member collection either as it was or without the first member
\* of the requested id.
C10_ErrorLeavesStoreButDeleteMember ==
    \A c \in Clients :
        (req[c].pc = "done" /\ req[c].status = 500 /\ ~req[c].inter) =>
            /\ timeOff = req[c].snap.t
            /\ onCall = req[c].snap.o
            /\ req[c].kind # "deleteMember" => members = req[c].snap.m
            /\ req[c].kind = "deleteMember" =>
                  \/ members = req[c].snap.m
                  \/ /\ Len(members) = Len(req[c].snap.m) - 1
                     /\ \E k \in DOMAIN req[c].snap.m :
                           /\ Matches(req[c].snap.m[k].id, req[c].n)
                           /\ members = SubSeq(req[c].snap.m, 1, k - 1)
                                        \o SubSeq(req[c].snap.m, k + 1, Len(req[c].snap.m))

\* a delete-member answered 500 after its member was removed, with a
\* time-off entry of that member still stored
C10_Witness ==
    \E c \in Clients :
        /\ req[c].pc = "done" /\ req[c].kind = "deleteMember"
        /\ req[c].status = 500 /\ ~req[c].inter
        /\ members # req[c].snap.m
        /\ \E i \in DOMAIN timeOff : Matches(timeOff[i].memberId, req[c].n)

\* C5: a holiday request is answered 200 only when all three calls were
\* fulfilled, with the three arrays joined in the order SK, NO, DK; when a
\* call failed it is answered 500 with no holiday item.
C5_HolidaysAllOrNothing ==
    \A c \in Clients :
        hol[c].pc = "done" =>
            /\ hol[c].status \in {200, 500}
            /\ hol[c].status = 200 =>
                  /\ \A k \in CountryIdx : hol[c].fetch[k] = "fulfilled"
                  /\ hol[c].body = hol[c].data[1] \o hol[c].data[2] \o hol[c].data[3]
            /\ hol[c].status = 500 =>
                  /\ \E k \in CountryIdx : hol[c].fetch[k] = "rejected"
                  /\ hol[c].body = <<>>
            /\ (\E k \in CountryIdx : hol[c].fetch[k] = "rejected") =>
                  hol[c].status = 500

\* a 200 whose body holds an item of each of two countries, in order
C5_Witness ==
    \E c \in Clients :
        /\ hol[c].pc = "done" /\ hol[c].status = 200
        /\ hol[c].data[1] # <<>> /\ hol[c].data[3] # <<>>
        /\ hol[c].body = hol[c].data[1] \o hol[c].data[2] \o hol[c].data[3]

\* C9: the response of a holiday request is sent only after each of the
\* three calls has ended, and exactly one response is sent.
C9_RespondsAfterAllCalls ==
    \A c \in Clients :
        hol[c].pc = "done" => (hol[c].open = {} /\ hol[c].sent = 1)

\* C9 as amended: exactly one response is sent per request; a 200 is sent
\* only after all three calls were fulfilled; a 500 is sent in the step in
\* which the first call fails, whatever calls are still pending, so that no
\* request is waiting with a failed call.
C9_RespondsOnceFailFast ==
    \A c \in Clients :
        /\ hol[c].pc = "done" => hol[c].sent = 1
        /\ hol[c].pc # "done" => hol[c].sent = 0
        /\ hol[c].pc = "waiting" => \A k \in CountryIdx : hol[c].fetch[k] # "rejected"
        /\ (hol[c].pc = "done" /\ hol[c].status = 200) => hol[c].open = {}

\* a 500 was sent while two calls are still pending
C9_Witness ==
    \E c \in Clients :
        /\ hol[c].pc = "done" /\ hol[c].status = 500 /\ hol[c].sent = 1
        /\ Cardinality({k \in CountryIdx : hol[c].fetch[k] = "pending"}) = 2

====
